---- MODULE Spec2Model ----
(***************************************************************************)
(* Verification model of mcrouter's administrative command dispatcher      *)
(* (mcrouter/ServiceInfo.cpp) and of the key-rewriting route handle        *)
(* (mcrouter/routes/ModifyKeyRoute.h).                                     *)
(*                                                                         *)
(* A std::string / folly::StringPiece is a sequence of one-character       *)
(* strings, so that find, back, split, append and startsWith are computed  *)
(* character by character as the code computes them.                       *)
(***************************************************************************)
EXTENDS Integers, Sequences, FiniteSets, TLC

(***************************************************************************)
(* Bounds of the model.                                                    *)
(***************************************************************************)
\* number of administrative requests handed to handleRequest in one run
MaxReq == 2

(***************************************************************************)
(* String literals of ServiceInfo.cpp.                                     *)
(***************************************************************************)
S_route ==
    <<"r", "o", "u", "t", "e">>
S_ERROR ==
    <<"E", "R", "R", "O", "R", ":", " ">>
S_unknown_command ==
    <<"u", "n", "k", "n", "o", "w", "n", " ", "c", "o", "m", "m", "a", "n", "d", ":", " ">>
S_route_2_args ==
    <<"r", "o", "u", "t", "e", ":", " ", "2", " ", "a", "r", "g", "s", " ", "e", "x", "p", "e", "c", "t", "e", "d">>
S_route_unknown_op ==
    <<"r", "o", "u", "t", "e", ":", " ", "u", "n", "k", "n", "o", "w", "n", " ", "o", "p", " ">>
S_route_handles_unknown_op ==
    <<"r", "o", "u", "t", "e", "_", "h", "a", "n", "d", "l", "e", "s", ":", " ", "u", "n", "k", "n", "o", "w", "n", " ", "o", "p", " ">>
S_route_handles_2_args ==
    <<"r", "o", "u", "t", "e", "_", "h", "a", "n", "d", "l", "e", "s", ":", " ", "2", " ", "a", "r", "g", "s", " ", "e", "x", "p", "e", "c", "t", "e", "d">>
S_route_handles ==
    <<"r", "o", "u", "t", "e", "_", "h", "a", "n", "d", "l", "e", "s">>
S_version ==
    <<"v", "e", "r", "s", "i", "o", "n">>
S_config ==
    <<"c", "o", "n", "f", "i", "g">>
S_config_age ==
    <<"c", "o", "n", "f", "i", "g", "_", "a", "g", "e">>
S_config_file ==
    <<"c", "o", "n", "f", "i", "g", "_", "f", "i", "l", "e">>
S_options ==
    <<"o", "p", "t", "i", "o", "n", "s">>
S_config_md5_digest ==
    <<"c", "o", "n", "f", "i", "g", "_", "m", "d", "5", "_", "d", "i", "g", "e", "s", "t">>
S_config_sources_info ==
    <<"c", "o", "n", "f", "i", "g", "_", "s", "o", "u", "r", "c", "e", "s", "_", "i", "n", "f", "o">>
S_preprocessed_config ==
    <<"p", "r", "e", "p", "r", "o", "c", "e", "s", "s", "e", "d", "_", "c", "o", "n", "f", "i", "g">>
S_hostid ==
    <<"h", "o", "s", "t", "i", "d">>
S_no_config_file ==
    <<"n", "o", " ", "c", "o", "n", "f", "i", "g", " ", "f", "i", "l", "e", " ", "f", "o", "u", "n", "d", "!">>
S_options_args ==
    <<"o", "p", "t", "i", "o", "n", "s", ":", " ", "0", " ", "o", "r", " ", "1", " ", "a", "r", "g", "s", " ", "e", "x", "p", "e", "c", "t", "e", "d">>
S_options_option ==
    <<"o", "p", "t", "i", "o", "n", "s", ":", " ", "o", "p", "t", "i", "o", "n", " ">>
S_not_found ==
    <<" ", "n", "o", "t", " ", "f", "o", "u", "n", "d">>
S_no_md5 ==
    <<"n", "o", " ", "c", "o", "n", "f", "i", "g", " ", "m", "d", "5", " ", "d", "i", "g", "e", "s", "t", " ", "f", "o", "u", "n", "d", "!">>
S_can_not_load ==
    <<"c", "a", "n", " ", "n", "o", "t", " ", "l", "o", "a", "d", " ", "c", "o", "n", "f", "i", "g">>
S_config_not_available ==
    <<"{", "\"", "e", "r", "r", "o", "r", "\"", ":", " ", "\"", "c", "o", "n", "f", "i", "g", " ", "i", "s", " ", "l", "o", "a", "d", "e", "d", " ", "f", "r", "o", "m", " ", "f", "i", "l", "e", " ", "a", "n", "d", " ", "n", "o", "t", " ", "a", "v", "a", "i", "l", "a", "b", "l", "e", "\"", "}">>
S_CRLF ==
    <<"\r", "\n">>

(***************************************************************************)
(* std::string / folly::StringPiece primitives.                            *)
(***************************************************************************)
\* StringPiece::find(c): the first position of c, 0 standing for npos
\* (positions are 1-based here, 0-based in the code).
RECURSIVE FindFrom(_, _, _)
FindFrom(s, c, i) ==
    IF i > Len(s) THEN 0
    ELSE IF s[i] = c THEN i
    ELSE FindFrom(s, c, i + 1)

Find(s, c) == FindFrom(s, c, 1)

\* StringPiece::back()
Back(s) == s[Len(s)]

\* folly::split(delim, s, out) with ignoreEmpty = false
RECURSIVE Split(_, _)
Split(delim, s) ==
    LET p == Find(s, delim)
    IN  IF p = 0 THEN <<s>>
        ELSE <<SubSeq(s, 1, p - 1)>> \o Split(delim, SubSeq(s, p + 1, Len(s)))

\* StringPiece::startsWith(prefix)
StartsWith(s, prefix) ==
    /\ Len(prefix) <= Len(s)
    /\ SubSeq(s, 1, Len(prefix)) = prefix

\* std::string(n, c)
RECURSIVE Repeat(_, _)
Repeat(n, c) == IF n <= 0 THEN <<>> ELSE <<c>> \o Repeat(n - 1, c)

\* std::to_string / folly::to<std::string> of a non-negative integer
Digits == <<"0", "1", "2", "3", "4", "5", "6", "7", "8", "9">>

RECURSIVE ToStdString(_)
ToStdString(n) ==
    IF n < 10 THEN <<Digits[n + 1]>>
    ELSE ToStdString(n \div 10) \o <<Digits[(n % 10) + 1]>>

(***************************************************************************)
(* handleRequest: parsing of the administrative key (lines 333-347).       *)
(***************************************************************************)
\* mutant: the last character of the key is not looked at
HasArgList_noBackCheck(key) == Find(key, "(") # 0

\* p != npos && key.back() == ')'
HasArgList(key) == Find(key, "(") # 0 /\ Back(key) = ")"

\* cmd
CmdOf(key) ==
    IF HasArgList(key) THEN SubSeq(key, 1, Find(key, "(") - 1) ELSE key

\* argsStr
ArgsStrOf(key) ==
    IF HasArgList(key)
    THEN SubSeq(key, Find(key, "(") + 1, Len(key) - 1)
    ELSE <<>>

\* args
ArgsOf(key) ==
    IF ArgsStrOf(key) = <<>> THEN <<>> ELSE Split(",", ArgsStrOf(key))

\* a function either returns a value or throws std::runtime_error(what)
Return(v) == [thrown |-> FALSE, val |-> v]

Throw(what) == [thrown |-> TRUE, val |-> what]

(***************************************************************************)
(* Operation registry (McOpList, mc_op_to_string).                         *)
(***************************************************************************)
\* McOpList::LastItem: the items are numbered 1..LastItem, Item<0> ends the list
LastItem == 3

\* mc_op_to_string(McOpList::Item<op_id>::op::mc_op)
McOpToString(op_id) ==
    CASE op_id = 1 -> <<"g", "e", "t">>
      [] op_id = 2 -> <<"s", "e", "t">>
      [] op_id = 3 -> <<"d", "e", "l", "e", "t", "e">>

(***************************************************************************)
(* The configured routing tree behind proxyRoute_: route handle 1 is the   *)
(* ProxyRoute, 4..6 are destination routes.  Handle 4 is shared by two     *)
(* parents for op 2; for op 3 the walk reaches no destination.             *)
(***************************************************************************)
ProxyRoute == 1

\* rh.routeName()
RouteName(rh) ==
    CASE rh = 1 -> <<"p", "r", "o", "x", "y">>
      [] rh = 2 -> <<"m", "k">>
      [] rh = 3 -> <<"a", "l", "l">>
      [] rh = 4 -> <<"h", "X">>
      [] rh = 5 -> <<"h", "Y">>
      [] rh = 6 -> <<"h", "Z">>

\* rh.couldRouteTo(req, Operation()): the children, in order
CouldRouteTo(rh, op_id) ==
    CASE rh = 1 -> IF op_id = 3 THEN <<3>> ELSE <<2, 3>>
      [] rh = 2 -> <<4>>
      [] rh = 3 -> IF op_id = 1 THEN <<5, 6>>
                   ELSE IF op_id = 2 THEN <<4, 6>>
                   ELSE <<>>
      [] OTHER  -> <<>>

\* a destination route: route() on it reports its client to the recording sink
IsDestination(rh) == rh \in {4, 5, 6}

\* client.ap.toHostPortString()
ToHostPortString(rh) ==
    CASE rh = 4 -> <<"X">>
      [] rh = 5 -> <<"Y">>
      [] rh = 6 -> <<"Z">>

(***************************************************************************)
(* dumpTree and the route_handles helper (lines 114-152).                  *)
(***************************************************************************)
RECURSIVE dumpTree(_, _, _)
RECURSIVE dumpTargets(_, _, _)
\* mutant: the recursion passes level, not level + 1
RECURSIVE dumpTargets_sameLevel(_, _, _)
dumpTargets_sameLevel(level, targets, op_id) ==
    IF targets = <<>> THEN <<>>
    ELSE dumpTree(level, Head(targets), op_id)
           \o dumpTargets_sameLevel(level, Tail(targets), op_id)

\* the for loop over targets (lines 122-124)
dumpTargets(level, targets, op_id) ==
    IF targets = <<>> THEN <<>>
    ELSE dumpTree(level + 1, Head(targets), op_id)
           \o dumpTargets(level, Tail(targets), op_id)

\* what one call of dumpTree appends to tree
dumpTree(level, rh, op_id) ==
    (Repeat(level, " ") \o RouteName(rh) \o <<"\n">>)
      \o dumpTargets(level, CouldRouteTo(rh, op_id), op_id)

RECURSIVE routeHandlesCommandHelper(_, _)
routeHandlesCommandHelper(op, op_id) ==
    IF op_id = 0 THEN Throw(S_route_handles_unknown_op \o op)
    ELSE IF op = McOpToString(op_id) THEN Return(dumpTree(0, ProxyRoute, op_id))
    ELSE routeHandlesCommandHelper(op, op_id - 1)

\* the route handles one call of dumpTree calls couldRouteTo on (line 121),
\* in call order
RECURSIVE dumpTreeCalls(_, _)
RECURSIVE dumpTargetsCalls(_, _)
dumpTargetsCalls(targets, op_id) ==
    IF targets = <<>> THEN <<>>
    ELSE dumpTreeCalls(Head(targets), op_id)
           \o dumpTargetsCalls(Tail(targets), op_id)

dumpTreeCalls(rh, op_id) ==
    <<rh>> \o dumpTargetsCalls(CouldRouteTo(rh, op_id), op_id)

\* the couldRouteTo calls made below routeHandlesCommandHelper
RECURSIVE routeHandlesCommandHelperCalls(_, _)
routeHandlesCommandHelperCalls(op, op_id) ==
    IF op_id = 0 THEN <<>>
    ELSE IF op = McOpToString(op_id) THEN dumpTreeCalls(ProxyRoute, op_id)
    ELSE routeHandlesCommandHelperCalls(op, op_id - 1)

(***************************************************************************)
(* The route command up to the scheduling of the task (lines 154-178,      *)
(* 319-330).  Return(t) stands for a call of handleRouteCommandForOp with  *)
(* operation t.op and key t.keyStr.                                        *)
(***************************************************************************)
\* mutant: Item<0> of the route helper raises the route_handles text
RECURSIVE routeCommandHelper_wrongText(_, _, _)
routeCommandHelper_wrongText(op, key, op_id) ==
    IF op_id = 0 THEN Throw(S_route_handles_unknown_op \o op)
    ELSE IF op = McOpToString(op_id)
         THEN Return([op |-> op_id, keyStr |-> key])
    ELSE routeCommandHelper_wrongText(op, key, op_id - 1)

\* mutant: an op that matches no operation is routed as the first one
RECURSIVE routeCommandHelper_defaultOp(_, _, _)
routeCommandHelper_defaultOp(op, key, op_id) ==
    IF op_id = 0 THEN Return([op |-> 1, keyStr |-> key])
    ELSE IF op = McOpToString(op_id)
         THEN Return([op |-> op_id, keyStr |-> key])
    ELSE routeCommandHelper_defaultOp(op, key, op_id - 1)

RECURSIVE routeCommandHelper(_, _, _)
routeCommandHelper(op, key, op_id) ==
    IF op_id = 0 THEN Throw(S_route_unknown_op \o op)
    ELSE IF op = McOpToString(op_id)
         THEN Return([op |-> op_id, keyStr |-> key])
    ELSE routeCommandHelper(op, key, op_id - 1)

handleRouteCommand(args) ==
    IF Len(args) # 2 THEN Throw(S_route_2_args)
    ELSE routeCommandHelper(args[1], args[2], LastItem)

(***************************************************************************)
(* What the command handlers read: proxy_->opts, proxy_->stats, the        *)
(* config API, globals::hostid().  One environment has nothing configured, *)
(* the other has a config string ending in two newlines and an option      *)
(* whose value is empty.                                                   *)
(***************************************************************************)
\* MCROUTER_PACKAGE_STRING
S_PACKAGE ==
    <<"m", "c", "r", "o", "u", "t", "e", "r", " ", "1", ".", "0">>

\* McrouterOptions::getOptionData(): the option names in the order listed
OptionData == << <<"a">>, <<"b">>, <<"c">> >>

EnvBare ==
    [ config_str |-> <<>>, config_file |-> <<>>, md5 |-> <<>>,
      optDict |-> [n \in {} |-> <<>>],
      config_age |-> 0, hostid |-> 0,
      sources_info |-> <<"{", "}">>,
      has_config_file |-> FALSE, preprocessed |-> <<>> ]

EnvFull ==
    [ config_str |-> <<"c", "\n", "\n">>, config_file |-> <<"f">>,
      md5 |-> <<"d", "5">>,
      optDict |-> [n \in {<<"a">>, <<"b">>} |->
                      IF n = <<"a">> THEN <<"1">> ELSE <<>>],
      config_age |-> 12, hostid |-> 7,
      sources_info |-> <<"{", "}">>,
      has_config_file |-> TRUE, preprocessed |-> <<"{", "}", "\n">> ]

Envs == {EnvBare, EnvFull}

(***************************************************************************)
(* The command table commands_ (lines 194-316).  Every handler is a        *)
(* function from the argument list to Return(string) or Throw(what).       *)
(***************************************************************************)
CommandNames ==
    { S_version, S_config, S_config_age, S_config_file, S_options,
      S_route_handles, S_config_md5_digest, S_config_sources_info,
      S_preprocessed_config, S_hostid }

\* "options" with no argument: all options in the order of getOptionData
RECURSIVE OptionsAll(_, _)
OptionsAll(e, i) ==
    IF i > Len(OptionData) THEN <<>>
    ELSE (IF OptionData[i] \in DOMAIN e.optDict
          THEN OptionData[i] \o <<" ">> \o e.optDict[OptionData[i]] \o <<"\n">>
          ELSE <<>>)
         \o OptionsAll(e, i + 1)

OptionsCommand(e, args) ==
    IF Len(args) > 1 THEN Throw(S_options_args)
    ELSE IF Len(args) = 1
         THEN IF args[1] \notin DOMAIN e.optDict
              THEN Throw(S_options_option \o args[1] \o S_not_found)
              ELSE Return(e.optDict[args[1]])
    ELSE Return(OptionsAll(e, 1))

RouteHandlesCommand(args) ==
    IF Len(args) # 2 THEN Throw(S_route_handles_2_args)
    ELSE routeHandlesCommandHelper(args[1], LastItem)

\* it->second(args)
Command(e, cmd, args) ==
    CASE cmd = S_version -> Return(S_PACKAGE)
      [] cmd = S_config ->
            IF e.config_str = <<>> THEN Return(S_config_not_available)
            ELSE Return(e.config_str)
      [] cmd = S_config_age -> Return(ToStdString(e.config_age))
      [] cmd = S_config_file ->
            IF e.config_file = <<>> THEN Throw(S_no_config_file)
            ELSE Return(e.config_file)
      [] cmd = S_options -> OptionsCommand(e, args)
      [] cmd = S_route_handles -> RouteHandlesCommand(args)
      [] cmd = S_config_md5_digest ->
            IF e.md5 = <<>> THEN Throw(S_no_md5) ELSE Return(e.md5)
      [] cmd = S_config_sources_info -> Return(e.sources_info)
      [] cmd = S_preprocessed_config ->
            IF ~e.has_config_file THEN Throw(S_can_not_load)
            ELSE Return(e.preprocessed)
      [] cmd = S_hostid -> Return(ToStdString(e.hostid))

(***************************************************************************)
(* handleRequest (lines 332-371) as a function of the request key: the     *)
(* reply it sends on its own call stack (none or one) and the task it      *)
(* schedules (none or one).                                                *)
(***************************************************************************)
\* mutant: every trailing newline is removed
RECURSIVE StripTrailingNewline_all(_)
StripTrailingNewline_all(replyStr) ==
    IF replyStr # <<>> /\ Back(replyStr) = "\n"
    THEN StripTrailingNewline_all(SubSeq(replyStr, 1, Len(replyStr) - 1))
    ELSE replyStr

\* lines 362-364
StripTrailingNewline(replyStr) ==
    IF replyStr # <<>> /\ Back(replyStr) = "\n"
    THEN SubSeq(replyStr, 1, Len(replyStr) - 1)
    ELSE replyStr

\* the catch clause, line 366
CatchReply(what) == S_ERROR \o what

\* lines 357-361
TableLookup(e, cmd, args) ==
    IF cmd \notin CommandNames THEN Throw(S_unknown_command \o cmd)
    ELSE Command(e, cmd, args)

\* mutant: the route branch lacks its return and falls through to sendReply
handleRequestOutcome_noReturn(e, key) ==
    LET cmd  == CmdOf(key)
        args == ArgsOf(key)
    IN  IF cmd = S_route
        THEN LET res == handleRouteCommand(args)
             IN  IF res.thrown
                 THEN [sent |-> <<CatchReply(res.val)>>, scheduled |-> <<>>]
                 ELSE [sent |-> << <<>> >>, scheduled |-> <<res.val>>]
        ELSE LET res == TableLookup(e, cmd, args)
             IN  IF res.thrown
                 THEN [sent |-> <<CatchReply(res.val)>>, scheduled |-> <<>>]
                 ELSE [sent |-> <<StripTrailingNewline(res.val)>>,
                       scheduled |-> <<>>]

\* mutant: route_handles is taken out of the table and scheduled like route
handleRequestOutcome_bothSpecial(e, key) ==
    LET cmd  == CmdOf(key)
        args == ArgsOf(key)
    IN  IF cmd \in {S_route, S_route_handles}
        THEN LET res == handleRouteCommand(args)
             IN  IF res.thrown
                 THEN [sent |-> <<CatchReply(res.val)>>, scheduled |-> <<>>]
                 ELSE [sent |-> <<>>, scheduled |-> <<res.val>>]
        ELSE LET res == TableLookup(e, cmd, args)
             IN  IF res.thrown
                 THEN [sent |-> <<CatchReply(res.val)>>, scheduled |-> <<>>]
                 ELSE [sent |-> <<StripTrailingNewline(res.val)>>,
                       scheduled |-> <<>>]

handleRequestOutcome(e, key) ==
    LET cmd  == CmdOf(key)
        args == ArgsOf(key)
    IN  IF cmd = S_route
        THEN LET res == handleRouteCommand(args)
             IN  IF res.thrown
                 THEN [sent |-> <<CatchReply(res.val)>>, scheduled |-> <<>>]
                 ELSE [sent |-> <<>>, scheduled |-> <<res.val>>]
        ELSE LET res == TableLookup(e, cmd, args)
             IN  IF res.thrown
                 THEN [sent |-> <<CatchReply(res.val)>>, scheduled |-> <<>>]
                 ELSE [sent |-> <<StripTrailingNewline(res.val)>>,
                       scheduled |-> <<>>]

\* the couldRouteTo calls made on handleRequest's own stack: those of the
\* route_handles command (lines 264-277); route walks the tree from its
\* task and no other command touches the tree
handleRequestCalls(key) ==
    LET cmd  == CmdOf(key)
        args == ArgsOf(key)
    IN  IF cmd = S_route_handles /\ Len(args) = 2
        THEN routeHandlesCommandHelperCalls(args[1], LastItem)
        ELSE <<>>

\* the administrative keys handed to handleRequest (req.keyWithoutRoute())
AdminKeys ==
    { <<"v", "e", "r", "s", "i", "o", "n">>,
      <<"c", "o", "n", "f", "i", "g">>,
      <<"c", "o", "n", "f", "i", "g", "_", "a", "g", "e">>,
      <<"c", "o", "n", "f", "i", "g", "_", "f", "i", "l", "e">>,
      <<"c", "o", "n", "f", "i", "g", "_", "m", "d", "5", "_", "d", "i", "g", "e", "s", "t">>,
      <<"c", "o", "n", "f", "i", "g", "_", "s", "o", "u", "r", "c", "e", "s", "_", "i", "n", "f", "o">>,
      <<"o", "p", "t", "i", "o", "n", "s">>,
      <<"o", "p", "t", "i", "o", "n", "s", "(", "a", ")">>,
      <<"o", "p", "t", "i", "o", "n", "s", "(", "b", ")">>,
      <<"o", "p", "t", "i", "o", "n", "s", "(", "z", "z", ")">>,
      <<"o", "p", "t", "i", "o", "n", "s", "(", "a", ",", "b", ")">>,
      <<"p", "r", "e", "p", "r", "o", "c", "e", "s", "s", "e", "d", "_", "c", "o", "n", "f", "i", "g">>,
      <<"h", "o", "s", "t", "i", "d">>,
      <<"b", "o", "g", "u", "s">>,
      <<"z", "z", "\n">>,
      <<"a", "(", "b">>,
      <<"v", "e", "r", "s", "i", "o", "n", "(", ")">>,
      <<"b", "o", "g", "u", "s", "(", "a", "(", "b", ")", ",", "c", ")">>,
      <<>>,
      <<"r", "o", "u", "t", "e">>,
      <<"r", "o", "u", "t", "e", "(", "g", "e", "t", ")">>,
      <<"r", "o", "u", "t", "e", "(", "g", "e", "t", ",", "k", ")">>,
      <<"r", "o", "u", "t", "e", "(", "s", "e", "t", ",", "k", ")">>,
      <<"r", "o", "u", "t", "e", "(", "d", "e", "l", "e", "t", "e", ",", "k", ")">>,
      <<"r", "o", "u", "t", "e", "(", "z", "z", ",", "k", ")">>,
      <<"r", "o", "u", "t", "e", "_", "h", "a", "n", "d", "l", "e", "s", "(", "g", "e", "t", ",", "k", ")">>,
      <<"r", "o", "u", "t", "e", "_", "h", "a", "n", "d", "l", "e", "s", "(", "s", "e", "t", ",", "k", ")">>,
      <<"r", "o", "u", "t", "e", "_", "h", "a", "n", "d", "l", "e", "s", "(", "d", "e", "l", "e", "t", "e", ",", "k", ")">>,
      <<"r", "o", "u", "t", "e", "_", "h", "a", "n", "d", "l", "e", "s", "(", "z", "z", ",", "k", ")">>,
      <<"r", "o", "u", "t", "e", "_", "h", "a", "n", "d", "l", "e", "s", "(", "g", "e", "t", ")">> }

(***************************************************************************)
(* ModifyKeyRoute (mcrouter/routes/ModifyKeyRoute.h).                      *)
(*                                                                         *)
(* A request is its key; req.routingPrefix() and req.keyWithoutRoute()     *)
(* are the two parts the request class splits the key into.                *)
(***************************************************************************)
\* MC_KEY_MAX_LEN
MC_KEY_MAX_LEN == 250

\* the position after the routing prefix "/region/cluster/" of a key that
\* starts with '/': one past the third '/', 0 when the key has no prefix
RoutingPrefixEnd(key) ==
    IF key = <<>> \/ key[1] # "/" THEN 0
    ELSE LET p2 == FindFrom(key, "/", 2)
         IN  IF p2 = 0 THEN 0 ELSE FindFrom(key, "/", p2 + 1)

\* req.routingPrefix()
RoutingPrefixOf(key) == SubSeq(key, 1, RoutingPrefixEnd(key))

\* req.keyWithoutRoute()
KeyWithoutRoute(key) == SubSeq(key, RoutingPrefixEnd(key) + 1, Len(key))

\* isspace / iscntrl
SpaceOrCtrl == {" ", "\n", "\r", "\t"}

\* mc_client_req_key_check
mc_client_req_key_check(key) ==
    IF Len(key) < 1 THEN "mc_req_err_no_key"
    ELSE IF Len(key) > MC_KEY_MAX_LEN THEN "mc_req_err_key_too_long"
    ELSE IF \E i \in 1..Len(key) : key[i] \in SpaceOrCtrl
         THEN "mc_req_err_space_or_ctrl"
    ELSE "mc_req_err_valid"

S_MKR_invalid_key ==
    <<"M", "o", "d", "i", "f", "y", "K", "e", "y", "R", "o", "u", "t", "e", ":", " ", "i", "n", "v", "a", "l", "i", "d", " ", "k", "e", "y", ":", " ">>

\* the reply of target_->route(req, Operation())
TargetReply == [isError |-> FALSE, what |-> <<>>]

\* Reply(ErrorReply, "ModifyKeyRoute: invalid key: " + mc_req_err_to_string(err))
ErrorReply(err) == [isError |-> TRUE, what |-> <<S_MKR_invalid_key, err>>]

\* mutant: the rewritten key goes to the target unchecked
MKR_routeReqWithKey_noCheck(reqKey, key) ==
    [toTarget |-> <<key>>, reply |-> TargetReply, reqAfter |-> reqKey]

\* mutant: setKey is called on the caller's request, not on a clone
MKR_routeReqWithKey_setKeyOnReq(reqKey, key) ==
    LET err == mc_client_req_key_check(key)
    IN  IF err # "mc_req_err_valid"
        THEN [toTarget |-> <<>>, reply |-> ErrorReply(err), reqAfter |-> reqKey]
        ELSE [toTarget |-> <<key>>, reply |-> TargetReply, reqAfter |-> key]

\* routeReqWithKey, lines 107-120: toTarget lists the keys of the requests
\* passed to target_->route, reqAfter is the key of the caller's request
\* when the call returns (setKey acts on the clone, line 118)
MKR_routeReqWithKey(reqKey, key) ==
    LET err == mc_client_req_key_check(key)
    IN  IF err # "mc_req_err_valid"
        THEN [toTarget |-> <<>>, reply |-> ErrorReply(err), reqAfter |-> reqKey]
        ELSE [toTarget |-> <<key>>, reply |-> TargetReply, reqAfter |-> reqKey]

\* mutant: the first branch builds the key from the request's own routing
\* prefix instead of rp
MKR_route_ownPrefix(node, reqKey) ==
    LET rp == IF node.routingPrefix # <<>> THEN node.routingPrefix[1]
              ELSE RoutingPrefixOf(reqKey)
    IN  IF ~StartsWith(KeyWithoutRoute(reqKey), node.keyPrefix)
        THEN MKR_routeReqWithKey(reqKey,
                 RoutingPrefixOf(reqKey) \o node.keyPrefix
                     \o KeyWithoutRoute(reqKey))
        ELSE IF node.routingPrefix # <<>> /\ rp # RoutingPrefixOf(reqKey)
        THEN MKR_routeReqWithKey(reqKey, rp \o KeyWithoutRoute(reqKey))
        ELSE [toTarget |-> <<reqKey>>, reply |-> TargetReply,
              reqAfter |-> reqKey]

\* route, lines 85-100; node.routingPrefix is the folly::Optional, a
\* sequence of no or one string
MKR_route(node, reqKey) ==
    LET rp == IF node.routingPrefix # <<>> THEN node.routingPrefix[1]
              ELSE RoutingPrefixOf(reqKey)
    IN  IF ~StartsWith(KeyWithoutRoute(reqKey), node.keyPrefix)
        THEN MKR_routeReqWithKey(reqKey,
                 rp \o node.keyPrefix \o KeyWithoutRoute(reqKey))
        ELSE IF node.routingPrefix # <<>> /\ rp # RoutingPrefixOf(reqKey)
        THEN MKR_routeReqWithKey(reqKey, rp \o KeyWithoutRoute(reqKey))
        ELSE [toTarget |-> <<reqKey>>, reply |-> TargetReply,
              reqAfter |-> reqKey]

\* mutant: couldRouteTo returns no child
MKR_couldRouteTo_none(node, reqKey) == <<>>

\* couldRouteTo, lines 79-83
MKR_couldRouteTo(node, reqKey) == <<node.target>>

\* the constructor, lines 51-77: the configurations that pass construction
MKR_Constructible(node) ==
    /\ node.routingPrefix # <<>> /\ node.routingPrefix[1] # <<>>
          => /\ RoutingPrefixEnd(node.routingPrefix[1])
                    = Len(node.routingPrefix[1])
    /\ node.keyPrefix = <<>>
          \/ mc_client_req_key_check(node.keyPrefix) = "mc_req_err_valid"

\* a key of the greatest valid length
LongKey == [i \in 1..MC_KEY_MAX_LEN |-> "k"]

\* the keys of the requests routed through the node
MKRequestKeys ==
    { <<"/", "a", "/", "b", "/", "a">>,
      <<"f", "o", "o">>,
      <<"/", "b", "/", "c", "/", "o">>,
      <<"a">>,
      <<"f", "o", "o", "a">>,
      <<"/", "a", "/", "b", "/", "f", "o", "o">>,
      <<>>,
      <<"/", "a", "/", "b", "/">>,
      <<"/", "x">>,
      <<"/", "x", "/", "y", "/", "k">>,
      <<"/", "b", "/", "c", "/", "f", "o", "o">>,
      LongKey }

\* the configurations of the node: set_routing_prefix absent, "" or
\* "/a/b/"; ensure_key_prefix absent (""), "foo" or "/x/y/"
MKNodes ==
    { n \in [ target : {"target"},
              routingPrefix : { <<>>, << <<>> >>, << <<"/", "a", "/", "b", "/">> >> },
              keyPrefix : { <<>>, <<"f", "o", "o">>, <<"/", "x", "/", "y", "/">> } ] :
        MKR_Constructible(n) }

(***************************************************************************)
(* State of the dispatcher.                                                *)
(***************************************************************************)
VARIABLES
    env,        \* what the command handlers read (fixed after construction)
    nreq,       \* number of handleRequest calls made so far
    reqKey,     \* reqKey[r]: the key of request r
    replies,    \* replies[r]: the replies sent to request r's context, in order
    task,       \* task[r]: the task scheduled for request r by addTaskFinally
    reported,   \* reported[r]: the sink invocations of r's walk, in call order
    hist,       \* hist[r]: what the task runner did for r (history)
    escaped,    \* escaped[r]: an exception left r's task uncaught
    mkNode,     \* the ModifyKeyRoute under test: target_, routingPrefix_, keyPrefix_
    mkCall      \* the last call made on mkNode and what it did

vars == <<env, nreq, reqKey, replies, task, reported, hist, escaped,
          mkNode, mkCall>>

Req == 1..MaxReq

\* folly::Try<unique_ptr<vector<string>>>: a value or an exception
TryValue(v) == [hasValue |-> TRUE, value |-> v]

TryException == [hasValue |-> FALSE, value |-> <<>>]

NoTask ==
    [pc |-> "none", op |-> 0, keyStr |-> <<>>, stack |-> <<>>,
     destinations |-> <<>>, data |-> TryException]

NoHist ==
    [workRuns |-> 0, finallyRuns |-> 0, signals |-> 0,
     returned |-> <<>>, received |-> <<>>, couldRouteToCalls |-> <<>>]

\* RecordingContext: the context is released by its last holder and fires
\* its completion signal
ctxCompleted(h) == [h EXCEPT !.signals = @ + 1]

\* handleRouteCommandForOp: addTaskFinally(work, finally), lines 75-110
addTaskFinally(t) ==
    [NoTask EXCEPT !.pc = "scheduled", !.op = t.op, !.keyStr = t.keyStr]

\* mutant: the sink puts a report in front of the earlier ones
Sink_prepend(destinations, rh) == <<ToHostPortString(rh)>> \o destinations

\* the sink of the RecordingContext, lines 83-85
Sink(destinations, rh) == Append(destinations, ToHostPortString(rh))

\* mutant: the separator is appended before every destination
RECURSIVE FinallyLoop_alwaysSeparator(_, _)
FinallyLoop_alwaysSeparator(str, destinations) ==
    IF destinations = <<>> THEN str
    ELSE FinallyLoop_alwaysSeparator(str \o S_CRLF \o Head(destinations),
                                     Tail(destinations))

\* the loop of the continuation, lines 98-106
RECURSIVE FinallyLoop(_, _)
FinallyLoop(str, destinations) ==
    IF destinations = <<>> THEN str
    ELSE FinallyLoop((IF str # <<>> THEN str \o S_CRLF ELSE str)
                         \o Head(destinations),
                     Tail(destinations))

NoCall ==
    [op |-> "none", reqKey |-> <<>>, reqKeyAfter |-> <<>>, toTarget |-> <<>>,
     reply |-> TargetReply, targets |-> <<>>]

DispatcherInit ==
    /\ nreq = 0
    /\ reqKey = [r \in Req |-> <<>>]
    /\ replies = [r \in Req |-> <<>>]
    /\ task = [r \in Req |-> NoTask]
    /\ reported = [r \in Req |-> <<>>]
    /\ hist = [r \in Req |-> NoHist]
    /\ escaped = [r \in Req |-> FALSE]

Init ==
    /\ env \in Envs
    /\ DispatcherInit
    /\ mkNode = CHOOSE n \in MKNodes : n.routingPrefix = <<>> /\ n.keyPrefix = <<>>
    /\ mkCall = NoCall

\* ServiceInfo::handleRequest(req), lines 332-371
HandleRequest(key) ==
    /\ nreq < MaxReq
    /\ LET r   == nreq + 1
           out == handleRequestOutcome(env, key)
       IN  /\ nreq' = r
           /\ reqKey' = [reqKey EXCEPT ![r] = key]
           /\ replies' = [replies EXCEPT ![r] = @ \o out.sent]
           /\ task' = IF out.scheduled = <<>> THEN task
                      ELSE [task EXCEPT ![r] = addTaskFinally(out.scheduled[1])]
           /\ hist' = [hist EXCEPT
                 ![r].couldRouteToCalls = handleRequestCalls(key)]
    /\ UNCHANGED <<mkNode, mkCall, env, reported, escaped>>

\* the fiber manager starts the work lambda: lines 80-91, up to the call of
\* proxyRoute->route(recordingReq, Operation())
RunWork(r) ==
    /\ task[r].pc = "scheduled"
    /\ task' = [task EXCEPT ![r].pc = "route",
                            ![r].destinations = <<>>,
                            ![r].stack = <<ProxyRoute>>]
    /\ hist' = [hist EXCEPT ![r].workRuns = @ + 1]
    /\ UNCHANGED <<mkNode, mkCall, env, nreq, reqKey, replies, reported, escaped>>

\* mutant: all walks in flight share one destination vector
RouteStep_sharedSink(r) ==
    /\ task[r].pc \in {"route", "wait"}
    /\ task[r].stack # <<>>
    /\ LET rh == Head(task[r].stack)
       IN  IF IsDestination(rh)
           THEN /\ task' = [q \in Req |->
                      IF q = r
                      THEN [task[q] EXCEPT !.destinations = Sink(@, rh),
                                           !.stack = Tail(@)]
                      ELSE IF task[q].pc \in {"route", "wait"}
                      THEN [task[q] EXCEPT !.destinations = Sink(@, rh)]
                      ELSE task[q]]
                /\ reported' = [reported EXCEPT
                      ![r] = Append(@, ToHostPortString(rh))]
           ELSE /\ task' = [task EXCEPT
                      ![r].stack = CouldRouteTo(rh, task[r].op) \o Tail(@)]
                /\ UNCHANGED reported
    /\ UNCHANGED <<mkNode, mkCall, env, nreq, reqKey, replies, hist, escaped>>

\* one route() call of the walk (line 91): a destination route reports to
\* the sink, any other route handle routes to its children in order
RouteStep(r) ==
    /\ task[r].pc \in {"route", "wait"}
    /\ task[r].stack # <<>>
    /\ LET rh == Head(task[r].stack)
       IN  IF IsDestination(rh)
           THEN /\ task' = [task EXCEPT
                      ![r].destinations = Sink(@, rh),
                      ![r].stack = Tail(@)]
                /\ reported' = [reported EXCEPT
                      ![r] = Append(@, ToHostPortString(rh))]
           ELSE /\ task' = [task EXCEPT
                      ![r].stack = CouldRouteTo(rh, task[r].op) \o Tail(@)]
                /\ UNCHANGED reported
    /\ UNCHANGED <<mkNode, mkCall, env, nreq, reqKey, replies, hist, escaped>>

\* the walk raises: the exception leaves the work lambda and the task
\* runner stores it in the Try it hands to the continuation
RouteThrows(r) ==
    /\ task[r].pc = "route"
    /\ task' = [task EXCEPT ![r].pc = "finally",
                            ![r].stack = <<>>,
                            ![r].destinations = <<>>,
                            ![r].data = TryException]
    /\ hist' = [hist EXCEPT ![r] = ctxCompleted(@)]
    /\ UNCHANGED <<mkNode, mkCall, env, nreq, reqKey, replies, reported, escaped>>

\* proxyRoute->route returns and recordingReq is destroyed, lines 91-92;
\* route handles the call handed the request on to may still hold the
\* context and report later
RouteReturns(r) ==
    /\ task[r].pc = "route"
    /\ task[r].stack # <<ProxyRoute>>
    /\ task' = [task EXCEPT ![r].pc = "wait"]
    /\ UNCHANGED <<mkNode, mkCall, env, nreq, reqKey, replies, reported, hist, escaped>>

\* mutant: the work returns its list without waiting for the context
WaitForRecorded_noWait(r) ==
    /\ task[r].pc = "wait"
    /\ task' = [task EXCEPT ![r].pc = "finally",
                            ![r].stack = <<>>,
                            ![r].destinations = <<>>,
                            ![r].data = TryValue(task[r].destinations)]
    /\ hist' = [hist EXCEPT ![r].returned = <<task[r].destinations>>]
    /\ UNCHANGED <<mkNode, mkCall, env, nreq, reqKey, replies, reported, escaped>>

\* RecordingContext::waitForRecorded returns once the last holder has
\* released the context, and the work lambda returns destinations,
\* lines 93-94
WaitForRecorded(r) ==
    /\ task[r].pc = "wait"
    /\ task[r].stack = <<>>
    /\ task' = [task EXCEPT ![r].pc = "finally",
                            ![r].destinations = <<>>,
                            ![r].data = TryValue(task[r].destinations)]
    /\ hist' = [hist EXCEPT ![r] = [ctxCompleted(@) EXCEPT
                      !.returned = <<task[r].destinations>>]]
    /\ UNCHANGED <<mkNode, mkCall, env, nreq, reqKey, replies, reported, escaped>>

\* mutant: the continuation may start while the work still waits
Finally_early(r) ==
    /\ task[r].pc \in {"wait", "finally"}
    /\ task' = [task EXCEPT ![r] = [NoTask EXCEPT !.pc = "done"]]
    /\ hist' = [hist EXCEPT ![r].finallyRuns = @ + 1,
                            ![r].received = <<task[r].data>>]
    /\ IF task[r].data.hasValue
       THEN /\ replies' = [replies EXCEPT
                  ![r] = Append(@, FinallyLoop(<<>>, task[r].data.value))]
            /\ UNCHANGED escaped
       ELSE /\ escaped' = [escaped EXCEPT ![r] = TRUE]
            /\ UNCHANGED replies
    /\ UNCHANGED <<mkNode, mkCall, env, nreq, reqKey, reported>>

\* the continuation, lines 96-109: *data rethrows a stored exception,
\* which no handler of this file catches
Finally(r) ==
    /\ task[r].pc = "finally"
    /\ task' = [task EXCEPT ![r] = [NoTask EXCEPT !.pc = "done"]]
    /\ hist' = [hist EXCEPT ![r].finallyRuns = @ + 1,
                            ![r].received = <<task[r].data>>]
    /\ IF task[r].data.hasValue
       THEN /\ replies' = [replies EXCEPT
                  ![r] = Append(@, FinallyLoop(<<>>, task[r].data.value))]
            /\ UNCHANGED escaped
       ELSE /\ escaped' = [escaped EXCEPT ![r] = TRUE]
            /\ UNCHANGED replies
    /\ UNCHANGED <<mkNode, mkCall, env, nreq, reqKey, reported>>

Next ==
    \/ \E key \in AdminKeys : HandleRequest(key)
    \/ \E r \in Req : RunWork(r)
    \/ \E r \in Req : RouteStep(r)
    \/ \E r \in Req : RouteThrows(r)
    \/ \E r \in Req : RouteReturns(r)
    \/ \E r \in Req : WaitForRecorded(r)
    \/ \E r \in Req : Finally(r)

Spec == Init /\ [][Next]_vars

\* the fiber manager runs every task it holds: a step of a task that stays
\* possible is eventually taken (requests need not arrive, a walk need
\* not raise)
FairSpec ==
    /\ Spec
    /\ \A r \in Req :
          /\ WF_vars(RunWork(r))
          /\ WF_vars(RouteStep(r))
          /\ WF_vars(RouteReturns(r))
          /\ WF_vars(WaitForRecorded(r))
          /\ WF_vars(Finally(r))

(***************************************************************************)
(* ModifyKeyRoute on its own: a node of any configuration that passes      *)
(* construction, and calls of route and couldRouteTo on it.                *)
(***************************************************************************)
InitMK ==
    /\ env = EnvBare
    /\ DispatcherInit
    /\ mkNode \in MKNodes
    /\ mkCall = NoCall

\* mkNode.route(req, Operation()) for a request with key reqK
MKRoute(reqK) ==
    /\ LET res == MKR_route(mkNode, reqK)
       IN  mkCall' = [op |-> "route", reqKey |-> reqK,
                      reqKeyAfter |-> res.reqAfter,
                      toTarget |-> res.toTarget, reply |-> res.reply,
                      targets |-> <<>>]
    /\ UNCHANGED <<mkNode, env, nreq, reqKey, replies, task, reported, hist,
                   escaped>>

\* mkNode.couldRouteTo(req, Operation())
MKCouldRouteTo(reqK) ==
    /\ mkCall' = [op |-> "couldRouteTo", reqKey |-> reqK, reqKeyAfter |-> reqK,
                  toTarget |-> <<>>, reply |-> TargetReply,
                  targets |-> MKR_couldRouteTo(mkNode, reqK)]
    /\ UNCHANGED <<mkNode, env, nreq, reqKey, replies, task, reported, hist,
                   escaped>>

NextMK ==
    \/ \E k \in MKRequestKeys : MKRoute(k)
    \/ \E k \in MKRequestKeys : MKCouldRouteTo(k)

SpecMK == InitMK /\ [][NextMK]_vars

(***************************************************************************)
(* Properties of the dispatcher (specification Spec).                      *)
(***************************************************************************)
\* the names of the registered operations
OpNames == { McOpToString(i) : i \in 1..LastItem }

\* request r has been passed to handleRequest
Handled(r) == r <= nreq

\* the command name and the arguments of every administrative key
KeyCmd == [k \in AdminKeys |-> CmdOf(k)]

KeyArgs == [k \in AdminKeys |-> ArgsOf(k)]

\* the keys route(op,key) with two arguments and a registered op
ValidRouteKeys ==
    { k \in AdminKeys :
        /\ KeyCmd[k] = S_route
        /\ Len(KeyArgs[k]) = 2
        /\ KeyArgs[k][1] \in OpNames }

\* r is a route(op,key) request with two arguments and a registered op
ValidRoute(r) == Handled(r) /\ reqKey[r] \in ValidRouteKeys

\* nothing is pending for r: handleRequest has returned and no task of r
\* is scheduled or running
Settled(r) == Handled(r) /\ task[r].pc \in {"none", "done"}

\* C1: every request passed to handleRequest gets exactly one reply: never
\* two, and never none once its handling has run to its end.
C1_ExactlyOneReply ==
    \A r \in Req :
        /\ Len(replies[r]) <= 1
        /\ Settled(r) => Len(replies[r]) = 1

\* C2: every failure raised while handling a request, the failures of the
\* background recording pass included, becomes an "ERROR: " reply and none
\* leaves the task uncaught.
C2_FailuresBecomeErrorReplies ==
    \A r \in Req :
        /\ ~escaped[r]
        /\ (hist[r].received # <<>> /\ ~hist[r].received[1].hasValue)
              => /\ Len(replies[r]) = 1
                 /\ StartsWith(replies[r][1], S_ERROR)

\* C3: an unknown command name is answered with exactly
\* "ERROR: unknown command: <name>", route(op,key) with an unregistered op
\* with exactly "ERROR: route: unknown op <op>", and route_handles(op,key)
\* with an unregistered op with exactly "ERROR: route_handles: unknown op <op>".
C3_UnknownNameReplies ==
    \A r \in Req : Handled(r) =>
        LET cmd  == KeyCmd[reqKey[r]]
            args == KeyArgs[reqKey[r]]
        IN  /\ (cmd # S_route /\ cmd \notin CommandNames)
                  => replies[r] = << S_ERROR \o S_unknown_command \o cmd >>
            /\ (cmd = S_route /\ Len(args) = 2 /\ args[1] \notin OpNames)
                  => replies[r] = << S_ERROR \o S_route_unknown_op \o args[1] >>
            /\ (cmd = S_route_handles /\ Len(args) = 2 /\ args[1] \notin OpNames)
                  => replies[r] =
                       << S_ERROR \o S_route_handles_unknown_op \o args[1] >>

C3_Witness ==
    \E r1, r2 \in Req :
        /\ reqKey[r1] = <<"b", "o", "g", "u", "s">>
        /\ replies[r1] = << <<"E", "R", "R", "O", "R", ":", " ", "u", "n", "k", "n", "o", "w", "n", " ", "c", "o", "m", "m", "a", "n", "d", ":", " ", "b", "o", "g", "u", "s">> >>
        /\ reqKey[r2] = <<"r", "o", "u", "t", "e", "(", "z", "z", ",", "k", ")">>
        /\ replies[r2] = << <<"E", "R", "R", "O", "R", ":", " ", "r", "o", "u", "t", "e", ":", " ", "u", "n", "k", "n", "o", "w", "n", " ", "o", "p", " ", "z", "z">> >>

\* the elements of seq joined by sep, with no leading or trailing sep
RECURSIVE JoinWith(_, _)
JoinWith(seq, sep) ==
    IF seq = <<>> THEN <<>>
    ELSE IF Len(seq) = 1 THEN seq[1]
    ELSE seq[1] \o sep \o JoinWith(Tail(seq), sep)

\* C4: the reply body of a route request is the destinations reported to
\* the sink during its walk, in report order, joined by "\r\n".
C4_RouteReplyJoinsDestinations ==
    \A r \in Req :
        (ValidRoute(r) /\ task[r].pc = "done" /\ ~escaped[r])
            => replies[r] = << JoinWith(reported[r], <<"\r", "\n">>) >>

C4_Witness ==
    \E r \in Req :
        /\ task[r].pc = "done"
        /\ reported[r] = << <<"X">>, <<"Y">>, <<"Z">> >>
        /\ replies[r] = << <<"X", "\r", "\n", "Y", "\r", "\n", "Z">> >>

\* C5: for a valid route(op,key) request handleRequest only schedules the
\* walk: when it returns the task has not started and no reply has been
\* sent; the reply is sent later, by the step that runs the continuation.
C5_RouteRepliesFromContinuation ==
    [][\A r \in Req :
          /\ (nreq = r - 1 /\ nreq' = r /\ reqKey'[r] \in ValidRouteKeys)
                => /\ task'[r].pc = "scheduled"
                   /\ hist'[r].workRuns = 0
                   /\ reported'[r] = <<>>
                   /\ replies'[r] = <<>>
          /\ (replies'[r] # replies[r] /\ ValidRoute(r))
                => /\ nreq' = nreq
                   /\ task[r].pc = "finally"
                   /\ task'[r].pc = "done"
      ]_vars

C5_Witness ==
    \E r \in Req :
        /\ ValidRoute(r)
        /\ nreq > r
        /\ task[r].pc = "scheduled"
        /\ replies[r] = <<>>

RECURSIVE PathsBelow(_, _, _)
PathsBelow(rh, op_id, path) ==
    {path} \cup
    UNION { PathsBelow(CouldRouteTo(rh, op_id)[i], op_id, Append(path, i)) :
              i \in 1..Len(CouldRouteTo(rh, op_id)) }

\* the route handle a path leads to
RECURSIVE HandleAt(_, _, _)
HandleAt(rh, op_id, path) ==
    IF path = <<>> THEN rh
    ELSE HandleAt(CouldRouteTo(rh, op_id)[Head(path)], op_id, Tail(path))

\* pre-order: a node before its descendants, an earlier child's subtree
\* before a later child's
RECURSIVE PreorderBefore(_, _)
PreorderBefore(p, q) ==
    IF p = <<>> THEN q # <<>>
    ELSE IF q = <<>> THEN FALSE
    ELSE IF Head(p) # Head(q) THEN Head(p) < Head(q)
    ELSE PreorderBefore(Tail(p), Tail(q))

RECURSIVE InPreorder(_)
InPreorder(paths) ==
    IF paths = {} THEN <<>>
    ELSE LET first == CHOOSE p \in paths :
                          \A q \in paths \ {p} : PreorderBefore(p, q)
         IN  <<first>> \o InPreorder(paths \ {first})

\* one line per path: depth spaces, the route name, a newline
RECURSIVE DumpLines(_, _)
DumpLines(op_id, paths) ==
    IF paths = <<>> THEN <<>>
    ELSE (Repeat(Len(Head(paths)), " ")
            \o RouteName(HandleAt(ProxyRoute, op_id, Head(paths)))
            \o <<"\n">>)
         \o DumpLines(op_id, Tail(paths))

\* the dump of the tree for each registered operation, line by line
PreorderDump ==
    [op_id \in 1..LastItem |->
        DumpLines(op_id, InPreorder(PathsBelow(ProxyRoute, op_id, <<>>)))]

\* C9: the route_handles dump for a registered op lists the tree in
\* depth-first pre-order along couldRouteTo, one line per path from the
\* root, each line the route name after one space per level of depth.
C9_DumpIsPreorder ==
    \A r \in Req : \A op_id \in 1..LastItem :
        ( /\ Handled(r)
          /\ KeyCmd[reqKey[r]] = S_route_handles
          /\ Len(KeyArgs[reqKey[r]]) = 2
          /\ KeyArgs[reqKey[r]][1] = McOpToString(op_id) )
        => /\ Len(replies[r]) = 1
           /\ replies[r][1] \o <<"\n">> = PreorderDump[op_id]

C9_Witness ==
    \E r \in Req :
        /\ reqKey[r] = <<"r", "o", "u", "t", "e", "_", "h", "a", "n", "d", "l", "e", "s", "(", "s", "e", "t", ",", "k", ")">>
        /\ replies[r] = << <<"p", "r", "o", "x", "y", "\n", " ", "m", "k", "\n", " ", " ", "h", "X", "\n", " ", "a", "l", "l", "\n", " ", " ", "h", "X", "\n", " ", " ", "h", "Z">> >>

\* what the table lookup and the handler give for each administrative key
HandlerResult ==
    [e \in Envs, k \in AdminKeys |-> TableLookup(e, CmdOf(k), ArgsOf(k))]

\* C10: a successful reply of a table command is the handler's result
\* without one trailing newline (one only), an empty result stays empty,
\* and an "ERROR: " reply carries the failure text unaltered.
C10_OneTrailingNewlineStripped ==
    \A r \in Req : (Handled(r) /\ KeyCmd[reqKey[r]] # S_route) =>
        LET res == HandlerResult[env, reqKey[r]]
        IN  /\ Len(replies[r]) = 1
            /\ res.thrown => replies[r][1] = S_ERROR \o res.val
            /\ (~res.thrown /\ res.val # <<>> /\ Back(res.val) = "\n")
                  => replies[r][1] \o <<"\n">> = res.val
            /\ (~res.thrown /\ (res.val = <<>> \/ Back(res.val) # "\n"))
                  => replies[r][1] = res.val

C10_Witness ==
    \E r1, r2 \in Req :
        /\ env.config_str = <<"c", "\n", "\n">>
        /\ reqKey[r1] = S_config
        /\ replies[r1] = << <<"c", "\n">> >>
        /\ reqKey[r2] = <<"o", "p", "t", "i", "o", "n", "s", "(", "b", ")">>
        /\ replies[r2] = << <<>> >>

\* C11: during a walk every report made to the sink is in the walk's
\* destination sequence exactly once and in the order of the sink's
\* invocations, whatever other walks are interleaved with it; the list the
\* work returns is that sequence.
C11_ReportsAppendedInCallOrder ==
    \A r \in Req :
        /\ task[r].pc \in {"route", "wait"}
              => task[r].destinations = reported[r]
        /\ hist[r].returned # <<>> => hist[r].returned[1] = reported[r]

\* a walk that reached the shared destination twice has both reports,
\* while another walk is under way
C11_Witness ==
    \E r, q \in Req :
        /\ r # q
        /\ task[r].pc = "wait"
        /\ reported[r] = << <<"X">>, <<"X">>, <<"Z">> >>
        /\ task[r].destinations = << <<"X">>, <<"X">>, <<"Z">> >>
        /\ task[q].pc = "route"
        /\ reported[q] # <<>>

\* C12: the work returns its destination list only after the context has
\* completed, completion is signalled exactly once per context, no report
\* reaches the sink after the work has returned, and so the list the
\* continuation formats holds every destination reported during the walk.
C12_WorkReturnsAfterCompletion ==
    [][\A r \in Req :
          /\ hist'[r].signals <= 1
          /\ task'[r].pc \in {"finally", "done"} => hist'[r].signals = 1
          /\ task'[r].pc \in {"scheduled", "route", "wait"}
                => hist'[r].signals = 0
          /\ (hist[r].returned = <<>> /\ hist'[r].returned # <<>>)
                => /\ task[r].pc = "wait"
                   /\ task[r].stack = <<>>
                   /\ hist[r].signals = 0
                   /\ hist'[r].returned[1] = reported[r]
          /\ hist[r].returned # <<>> => reported'[r] = reported[r]
          /\ (hist'[r].finallyRuns > hist[r].finallyRuns
                /\ hist[r].returned # <<>>)
                => hist'[r].received = << TryValue(reported[r]) >>
      ]_vars

\* one walk has returned its three destinations after its context
\* completed while another has left route() with reports still to come
C12_Witness ==
    \E r, q \in Req :
        /\ r # q
        /\ hist[r].returned = << << <<"X">>, <<"Y">>, <<"Z">> >> >>
        /\ hist[r].signals = 1
        /\ task[q].pc = "wait"
        /\ task[q].stack # <<>>
        /\ task[q].destinations # <<>>

\* the host:port of every destination among paths, in the order given
RECURSIVE DestinationsAt(_, _)
DestinationsAt(op_id, paths) ==
    IF paths = <<>> THEN <<>>
    ELSE LET rh == HandleAt(ProxyRoute, op_id, Head(paths))
         IN  (IF IsDestination(rh) THEN <<ToHostPortString(rh)>> ELSE <<>>)
                \o DestinationsAt(op_id, Tail(paths))

\* the destinations a walk for each registered operation reaches
WalkDestinations ==
    [op_id \in 1..LastItem |->
        DestinationsAt(op_id, InPreorder(PathsBelow(ProxyRoute, op_id, <<>>)))]

\* the operation a valid route key names
RouteOpOf ==
    [k \in ValidRouteKeys |->
        CHOOSE op_id \in 1..LastItem : McOpToString(op_id) = KeyArgs[k][1]]

\* C13: with several route requests in flight each has its own context
\* and destination sequence: under every interleaving a request's list
\* and reply hold exactly the destinations of its own walk, never one
\* reported by another walk, and each reply goes to the request that
\* caused it.
C13_WalksAreIndependent ==
    \A r \in Req :
        /\ ~Handled(r) => (replies[r] = <<>> /\ reported[r] = <<>>)
        /\ ValidRoute(r) =>
              LET own == WalkDestinations[RouteOpOf[reqKey[r]]]
              IN  /\ Len(reported[r]) <= Len(own)
                  /\ reported[r] = SubSeq(own, 1, Len(reported[r]))
                  /\ task[r].pc \in {"route", "wait"}
                        => task[r].destinations = reported[r]
                  /\ hist[r].returned # <<>> => hist[r].returned = <<own>>
                  /\ (task[r].pc = "done" /\ ~escaped[r])
                        => replies[r] = << JoinWith(own, <<"\r", "\n">>) >>

\* two walks for different operations are in flight and have reported
\* different destinations
C13_Witness ==
    \E r, q \in Req :
        /\ task[r].pc \in {"route", "wait"}
        /\ task[q].pc \in {"route", "wait"}
        /\ task[r].op # task[q].op
        /\ task[r].destinations = << <<"X">>, <<"Y">> >>
        /\ task[q].destinations = << <<"X">>, <<"X">> >>

\* the keys of route and route_handles that are rejected: an argument
\* count other than 2, or an op that names no registered operation
RejectedRouteKeys ==
    { k \in AdminKeys :
        /\ KeyCmd[k] \in {S_route, S_route_handles}
        /\ (Len(KeyArgs[k]) # 2 \/ KeyArgs[k][1] \notin OpNames) }

\* the error text each rejected key is answered with
RejectionText ==
    [k \in RejectedRouteKeys |->
        IF Len(KeyArgs[k]) # 2
        THEN KeyCmd[k] \o <<":", " ", "2", " ", "a", "r", "g", "s", " ", "e", "x", "p", "e", "c", "t", "e", "d">>
        ELSE KeyCmd[k] \o <<":", " ", "u", "n", "k", "n", "o", "w", "n", " ", "o", "p", " ">> \o KeyArgs[k][1]]

\* C14: a route or route_handles request with an argument count other
\* than 2 or with an op that names no registered operation fails before
\* any traversal: no task is scheduled, no context is walked, neither
\* route nor couldRouteTo is invoked on any route handle, and the only
\* effect is the error reply.
C14_RejectedBeforeTraversal ==
    \A r \in Req :
        (Handled(r) /\ reqKey[r] \in RejectedRouteKeys)
            => /\ task[r] = NoTask
               /\ hist[r] = NoHist
               /\ reported[r] = <<>>
               /\ ~escaped[r]
               /\ replies[r] = << S_ERROR \o RejectionText[reqKey[r]] >>

\* a rejected route_handles request next to an accepted one whose dump
\* called couldRouteTo on all six route handles of the tree
C14_Witness ==
    \E r, q \in Req :
        /\ reqKey[r] = <<"r", "o", "u", "t", "e", "_", "h", "a", "n", "d", "l", "e", "s", "(", "z", "z", ",", "k", ")">>
        /\ replies[r] # <<>>
        /\ hist[r].couldRouteToCalls = <<>>
        /\ reqKey[q] = <<"r", "o", "u", "t", "e", "_", "h", "a", "n", "d", "l", "e", "s", "(", "g", "e", "t", ",", "k", ")">>
        /\ hist[q].couldRouteToCalls = <<1, 2, 4, 3, 5, 6>>

\* the parse of key k into KeyCmd[k] and KeyArgs[k] is the one described:
\* with a "(" and a final ")" the name holds no "(", no argument holds a
\* "," and name, "(", the arguments joined by "," and ")" give back k,
\* the argument list being empty exactly for name(); otherwise k is the
\* name and there are no arguments
ParseAsDescribed ==
    [k \in AdminKeys |->
        LET cmd  == KeyCmd[k]
            args == KeyArgs[k]
        IN  IF (\E i \in 1..Len(k) : k[i] = "(") /\ k[Len(k)] = ")"
            THEN /\ \A i \in 1..Len(cmd) : cmd[i] # "("
                 /\ \A j \in 1..Len(args) :
                       \A i \in 1..Len(args[j]) : args[j][i] # ","
                 /\ cmd \o <<"(">> \o JoinWith(args, <<",">>) \o <<")">> = k
                 /\ (args = <<>>) <=> (Len(k) = Len(cmd) + 2)
            ELSE cmd = k /\ args = <<>>]

\* C18: the key is split into a name and arguments only when it contains
\* "(" and ends with ")": the name is the text before the first "(", the
\* arguments the text up to the final ")" split on every ","; name()
\* has no arguments; a key with "(" that does not end with ")" is a bare
\* name and, not being a table key, is answered as an unknown command.
C18_KeySplitOnlyWithClosingParen ==
    \A r \in Req : Handled(r) =>
        LET k == reqKey[r]
        IN  /\ ParseAsDescribed[k]
            /\ ((\E i \in 1..Len(k) : k[i] = "(") /\ k[Len(k)] # ")")
                  => replies[r] = << S_ERROR \o S_unknown_command \o k >>
            /\ k = <<"v", "e", "r", "s", "i", "o", "n", "(", ")">>
                  => replies[r] = << S_PACKAGE >>
            /\ k = <<"b", "o", "g", "u", "s", "(", "a", "(", "b", ")", ",", "c", ")">>
                  => replies[r] = << S_ERROR \o S_unknown_command \o <<"b", "o", "g", "u", "s">> >>

C18_Witness ==
    \E r, q \in Req :
        /\ reqKey[r] = <<"a", "(", "b">>
        /\ replies[r] = << <<"E", "R", "R", "O", "R", ":", " ", "u", "n", "k", "n", "o", "w", "n", " ", "c", "o", "m", "m", "a", "n", "d", ":", " ", "a", "(", "b">> >>
        /\ reqKey[q] = <<"b", "o", "g", "u", "s", "(", "a", "(", "b", ")", ",", "c", ")">>
        /\ Len(replies[q]) = 1
        /\ KeyArgs[reqKey[q]] = << <<"a", "(", "b", ")">>, <<"c">> >>

\* C16 as stated: route and route_handles both run through the task
\* pipeline and reply from the task's continuation, and every other
\* command name is answered by a synchronous table lookup.
C16_RouteAndRouteHandlesUseTaskPipeline ==
    \A r \in Req : Handled(r) =>
        LET cmd  == KeyCmd[reqKey[r]]
            args == KeyArgs[reqKey[r]]
        IN  /\ ( /\ cmd \in {S_route, S_route_handles}
                 /\ Len(args) = 2
                 /\ args[1] \in OpNames
                 /\ replies[r] # <<>> )
                  => (hist[r].workRuns = 1 /\ hist[r].finallyRuns = 1)
            /\ cmd \notin {S_route, S_route_handles}
                  => /\ Len(replies[r]) = 1
                     /\ task[r] = NoTask
                     /\ hist[r].workRuns = 0

\* C16 (amended): only route is special-cased: a valid route request is
\* scheduled as a task and replied to from the task's continuation;
\* route_handles is an entry of the command table and, like every other
\* name, is answered on handleRequest's own stack, its tree walk included.
C16_OnlyRouteUsesTaskPipeline ==
    \A r \in Req : Handled(r) =>
        IF reqKey[r] \in ValidRouteKeys
        THEN /\ task[r] # NoTask
             /\ replies[r] # <<>>
                   => (hist[r].workRuns = 1 /\ hist[r].finallyRuns = 1)
        ELSE /\ Len(replies[r]) = 1
             /\ task[r] = NoTask
             /\ hist[r].workRuns = 0
             /\ hist[r].finallyRuns = 0
             /\ ( /\ KeyCmd[reqKey[r]] = S_route_handles
                  /\ Len(KeyArgs[reqKey[r]]) = 2
                  /\ KeyArgs[reqKey[r]][1] \in OpNames )
                   => /\ S_route_handles \in CommandNames
                      /\ hist[r].couldRouteToCalls # <<>>

\* a route_handles request has its reply and has walked the tree while a
\* route request handled before it is still only scheduled
C16_Witness ==
    /\ nreq = 2
    /\ reqKey[1] \in ValidRouteKeys
    /\ task[1].pc = "scheduled"
    /\ replies[1] = <<>>
    /\ reqKey[2] = <<"r", "o", "u", "t", "e", "_", "h", "a", "n", "d", "l", "e", "s", "(", "s", "e", "t", ",", "k", ")">>
    /\ Len(replies[2]) = 1
    /\ hist[2].workRuns = 0
    /\ hist[2].couldRouteToCalls = <<1, 2, 4, 3, 4, 6>>

\* under a fair scheduler every scheduled task ends: its walk terminates,
\* its wait ends and its continuation runs
TaskRunsToCompletion ==
    \A r \in Req : (task[r].pc = "scheduled") ~> (task[r].pc = "done")

\* C17: every scheduled route task runs to completion and its reply is
\* sent; in finite form: a task whose continuation has run has sent the
\* reply of its request.
C17_CompletedTaskHasReplied ==
    \A r \in Req :
        (hist[r].workRuns = 1 /\ task[r].pc = "done")
            => (hist[r].finallyRuns = 1 /\ Len(replies[r]) = 1)

(***************************************************************************)
(* Properties of ModifyKeyRoute (specification SpecMK).                    *)
(***************************************************************************)
\* rp: the configured set_routing_prefix if present, else the request's own
RpOf(node, key) ==
    IF node.routingPrefix # <<>> THEN node.routingPrefix[1]
    ELSE RoutingPrefixOf(key)

\* the case of the rewrite rule a request falls into: 1 the key prefix is
\* missing, 2 only the routing prefix differs, 3 nothing to change
RewriteCase(node, key) ==
    IF ~StartsWith(KeyWithoutRoute(key), node.keyPrefix) THEN 1
    ELSE IF node.routingPrefix # <<>>
            /\ node.routingPrefix[1] # RoutingPrefixOf(key) THEN 2
    ELSE 3

\* the key the rewrite rule gives the request passed to the target
RewrittenKey(node, key) ==
    CASE RewriteCase(node, key) = 1 ->
            RpOf(node, key) \o node.keyPrefix \o KeyWithoutRoute(key)
      [] RewriteCase(node, key) = 2 ->
            RpOf(node, key) \o KeyWithoutRoute(key)
      [] RewriteCase(node, key) = 3 -> key

\* the doc comment's node: set_routing_prefix "/a/b/", ensure_key_prefix "foo"
DocNode ==
    [ target |-> "target",
      routingPrefix |-> << <<"/", "a", "/", "b", "/">> >>,
      keyPrefix |-> <<"f", "o", "o">> ]

\* the doc comment's three examples, as (request key, key at the target)
DocExamples ==
    { << <<"/", "a", "/", "b", "/", "a">>, <<"/", "a", "/", "b", "/", "f", "o", "o", "a">> >>,
      << <<"f", "o", "o">>, <<"/", "a", "/", "b", "/", "f", "o", "o">> >>,
      << <<"/", "b", "/", "c", "/", "o">>, <<"/", "a", "/", "b", "/", "f", "o", "o", "o">> >> }

\* C7 as stated: in every case of the rewrite rule the target receives a
\* request with the rewritten key (the unchanged request in case 3).
C7_TargetReceivesRewrittenKey ==
    mkCall.op = "route"
        => mkCall.toTarget = << RewrittenKey(mkNode, mkCall.reqKey) >>

\* C7 (amended): the target receives the request with the rewritten key
\* (the unchanged request in case 3) provided a rewritten key passes the
\* key check; a rewritten key that fails it reaches no target and route
\* returns an error reply.  The doc comment's three examples hold.
C7_TargetReceivesValidRewrittenKey ==
    mkCall.op = "route" =>
        LET c   == RewriteCase(mkNode, mkCall.reqKey)
            key == RewrittenKey(mkNode, mkCall.reqKey)
        IN  /\ IF c \in {1, 2} /\ mc_client_req_key_check(key) # "mc_req_err_valid"
               THEN mkCall.toTarget = <<>> /\ mkCall.reply.isError
               ELSE mkCall.toTarget = <<key>> /\ ~mkCall.reply.isError
            /\ \A ex \in DocExamples :
                  (mkNode = DocNode /\ mkCall.reqKey = ex[1])
                      => mkCall.toTarget = << ex[2] >>

C7_Witness ==
    /\ mkNode = DocNode
    /\ mkCall.op = "route"
    /\ mkCall.reqKey = <<"/", "b", "/", "c", "/", "o">>
    /\ mkCall.toTarget = << <<"/", "a", "/", "b", "/", "f", "o", "o", "o">> >>

\* the children a call of route engaged
Engaged == IF mkCall.toTarget = <<>> THEN <<>> ELSE <<mkNode.target>>

\* C8 as stated: couldRouteTo returns exactly <<target>> and route engages
\* exactly these children for every request.
C8_CouldRouteToIsWhatRouteEngages ==
    /\ mkCall.op = "couldRouteTo" => mkCall.targets = <<mkNode.target>>
    /\ mkCall.op = "route"
          => Engaged = MKR_couldRouteTo(mkNode, mkCall.reqKey)

\* C8 (amended): couldRouteTo returns exactly <<target>> for every request;
\* route engages the target, once, and no other child, except that it
\* engages no child at all when the rewritten key fails the key check.
C8_RouteEngagesTargetUnlessInvalid ==
    /\ mkCall.op = "couldRouteTo" => mkCall.targets = <<mkNode.target>>
    /\ mkCall.op = "route" =>
          IF /\ RewriteCase(mkNode, mkCall.reqKey) \in {1, 2}
             /\ mc_client_req_key_check(RewrittenKey(mkNode, mkCall.reqKey))
                    # "mc_req_err_valid"
          THEN Engaged = <<>>
          ELSE /\ Len(mkCall.toTarget) = 1
               /\ Engaged = MKR_couldRouteTo(mkNode, mkCall.reqKey)

\* a rewritten key one character too long reaches no child, although
\* couldRouteTo names the target for the same request
C8_Witness ==
    /\ mkCall.op = "route"
    /\ mkCall.reqKey = LongKey
    /\ mkNode.keyPrefix # <<>>
    /\ mkCall.toTarget = <<>>
    /\ mkCall.reply.isError
    /\ MKR_couldRouteTo(mkNode, mkCall.reqKey) = <<mkNode.target>>

\* a key fails the key-syntax check: empty, longer than the greatest
\* length, or with a space or control character
InvalidKey(key) ==
    \/ key = <<>>
    \/ Len(key) > MC_KEY_MAX_LEN
    \/ \E i \in 1..Len(key) : key[i] \in SpaceOrCtrl

\* C15: when route builds a rewritten key that fails the key-syntax check
\* it returns the error reply "ModifyKeyRoute: invalid key: ..." as a
\* value and never calls the target's route; when the rewritten key is
\* valid the target's route is called exactly once.
C15_InvalidRewrittenKeyIsErrorReply ==
    (mkCall.op = "route" /\ RewriteCase(mkNode, mkCall.reqKey) \in {1, 2}) =>
        IF InvalidKey(RewrittenKey(mkNode, mkCall.reqKey))
        THEN /\ mkCall.toTarget = <<>>
             /\ mkCall.reply.isError
             /\ Len(mkCall.reply.what) = 2
             /\ mkCall.reply.what[1] = <<"M", "o", "d", "i", "f", "y", "K", "e", "y", "R", "o", "u", "t", "e", ":", " ", "i", "n", "v", "a", "l", "i", "d", " ", "k", "e", "y", ":", " ">>
             /\ mkCall.reply.what[2] # "mc_req_err_valid"
        ELSE /\ Len(mkCall.toTarget) = 1
             /\ ~mkCall.reply.isError

\* set_routing_prefix "" strips the routing prefix of a key that is nothing
\* but a routing prefix: the rewritten key is empty
C15_Witness ==
    /\ mkCall.op = "route"
    /\ mkNode.routingPrefix = << <<>> >>
    /\ mkCall.reqKey = <<"/", "a", "/", "b", "/">>
    /\ mkCall.toTarget = <<>>
    /\ mkCall.reply.isError
    /\ mkCall.reply.what[2] = "mc_req_err_no_key"

\* C19 as stated: whenever route delegates to its target, the key the
\* target receives has a key without route that starts with
\* ensure_key_prefix and, if set_routing_prefix is configured, a routing
\* prefix equal to the configured value.
C19_TargetKeyHasConfiguredPrefixes ==
    mkCall.op = "route" =>
        \A i \in 1..Len(mkCall.toTarget) :
            /\ StartsWith(KeyWithoutRoute(mkCall.toTarget[i]), mkNode.keyPrefix)
            /\ mkNode.routingPrefix # <<>>
                  => RoutingPrefixOf(mkCall.toTarget[i]) = mkNode.routingPrefix[1]

\* C20: route changes neither the request it was given nor the fields of
\* the node: the caller's request has the same key and routing prefix
\* after the call as before, and a rewritten key is set only on the clone
\* passed to the target.
C20_RouteLeavesRequestAndNode ==
    [][ /\ mkNode' = mkNode
        /\ mkCall'.op = "route"
              => /\ mkCall'.reqKeyAfter = mkCall'.reqKey
                 /\ RoutingPrefixOf(mkCall'.reqKeyAfter)
                        = RoutingPrefixOf(mkCall'.reqKey)
      ]_vars

\* the target received a rewritten key and the caller's request kept its own
C20_Witness ==
    /\ mkCall.op = "route"
    /\ mkCall.reqKey = <<"f", "o", "o">>
    /\ mkCall.toTarget = << <<"/", "a", "/", "b", "/", "f", "o", "o">> >>
    /\ mkCall.reqKeyAfter = <<"f", "o", "o">>

====
